---- MODULE Spec2Model ----
(***************************************************************************)
(* Wire codec of envoy/extensions/common/tap/v4alpha/common.pb.go:         *)
(* Marshal / MarshalToSizedBuffer / Size / Unmarshal of                    *)
(* CommonExtensionConfig, CommonExtensionConfig_TapDSConfig and            *)
(* AdminConfig, with skipCommon, sovCommon and encodeVarintCommon.         *)
(*                                                                         *)
(* Bytes are the integers 0..255 and a []byte is a sequence of them; Go    *)
(* index j is TLA+ index j+1.  A nil []byte and an empty one are both <<>>.*)
(* A Go pointer is <<>> (nil) or <<x>>.  Go's int is taken to be 64 bits   *)
(* wide (amd64 / arm64 builds).                                            *)
(***************************************************************************)
EXTENDS Integers, Sequences, FiniteSets, TLC

\* ------------------------------------------------------------------ errors

ErrNil == "nil"
ErrUnexpectedEOF == "io.ErrUnexpectedEOF"
ErrInvalidLengthCommon == "proto: negative length found during unmarshaling"
ErrIntOverflowCommon == "proto: integer overflow"
ErrUnexpectedEndOfGroupCommon == "proto: unexpected end of group"
ErrWrongWireType == "proto: wrong wireType"
ErrEndGroupNonGroup == "proto: wiretype end group for non-group"
ErrIllegalTag == "proto: illegal tag"
ErrIllegalWireType == "proto: illegal wireType"

\* ------------------------------------------------- 64-bit integers, varints

(* A varint read leaves its value as the list of the 7-bit groups it or-ed  *)
(* in, least significant first: group k (from 1) sits at bits 7(k-1)..7k-1. *)
(* The tenth group is shifted by 63, so only its lowest bit stays in a      *)
(* 64-bit word.                                                            *)
Digit(d, k) == IF k <= Len(d) THEN d[k] ELSE 0

(* The loop `for shift := uint(0); ; shift += 7` shared by every varint     *)
(* read: shift >= 64 is an overflow, running off the buffer is an           *)
(* unexpected EOF, a byte below 0x80 ends the varint.  k is shift / 7.      *)
RECURSIVE ReadVarintFrom(_, _, _, _)
ReadVarintFrom(dAtA, iNdEx, k, digits) ==
  IF 7 * k >= 64 THEN [err |-> ErrIntOverflowCommon, iNdEx |-> iNdEx, digits |-> digits]
  ELSE IF iNdEx >= Len(dAtA)
    THEN [err |-> ErrUnexpectedEOF, iNdEx |-> iNdEx, digits |-> digits]
  ELSE LET b == dAtA[iNdEx + 1]
           g == IF k = 9 THEN (b % 128) % 2 ELSE b % 128
           ds == Append(digits, g)
       IN IF b < 128 THEN [err |-> ErrNil, iNdEx |-> iNdEx + 1, digits |-> ds]
          ELSE ReadVarintFrom(dAtA, iNdEx + 1, k + 1, ds)

ReadVarint(dAtA, iNdEx) == ReadVarintFrom(dAtA, iNdEx, 0, <<>>)

(* Values below 2^28 are kept as integers.  A larger value of a 64-bit int  *)
(* is kept by what the code can observe of it: its sign, and its distance   *)
(* to the largest int (2^63 - 1) when that distance is below 2^28, which is *)
(* what decides whether adding a buffer index wraps to a negative number.   *)
Far == 128 * 2097152

Low28(d) == Digit(d, 1) + 128 * Digit(d, 2) + 16384 * Digit(d, 3) + 2097152 * Digit(d, 4)

HeadLow28(d) ==
  (127 - Digit(d, 1)) + 128 * (127 - Digit(d, 2)) + 16384 * (127 - Digit(d, 3))
    + 2097152 * (127 - Digit(d, 4))

(* int(x) of the 64-bit word the groups d make up. *)
IntOf(d) ==
  IF Digit(d, 10) = 1 THEN [neg |-> TRUE, big |-> FALSE, v |-> 0]
  ELSE IF \A k \in 5..9 : Digit(d, k) = 0
    THEN [neg |-> FALSE, big |-> FALSE, v |-> Low28(d)]
  ELSE IF \A k \in 5..9 : Digit(d, k) = 127
    THEN [neg |-> FALSE, big |-> TRUE, v |-> HeadLow28(d)]
  ELSE [neg |-> FALSE, big |-> TRUE, v |-> Far]

SmallInt(n) == [neg |-> FALSE, big |-> FALSE, v |-> n]

(* AddIndex in unbounded arithmetic: the sum never wraps. *)
AddIndexNoWrap(iNdEx, x) == IF ~x.big THEN SmallInt(iNdEx + x.v) ELSE x

(* iNdEx + x in 64-bit two's complement, for a buffer index iNdEx >= 0 and  *)
(* x >= 0: it wraps to a negative number when x is within iNdEx of 2^63.    *)
AddIndex(iNdEx, x) ==
  IF ~x.big THEN SmallInt(iNdEx + x.v)
  ELSE IF x.v >= Far THEN x
  ELSE IF iNdEx > x.v THEN [neg |-> TRUE, big |-> FALSE, v |-> 0]
  ELSE [neg |-> FALSE, big |-> TRUE, v |-> x.v - iNdEx]

(* x > l for a buffer length l (below 2^28). *)
Exceeds(x, l) == x.big \/ x.v > l

(* fieldNum := int32(wire >> 3): bits 3..34 of the tag, bit 34 the sign.    *)
(* A negative field number is only ever compared with 0: it is given as -1. *)
FieldNumOf(d) ==
  IF (Digit(d, 5) \div 64) % 2 = 1 THEN -1
  ELSE (Digit(d, 1) \div 8) + 16 * Digit(d, 2) + 2048 * Digit(d, 3)
         + 262144 * Digit(d, 4) + 33554432 * (Digit(d, 5) % 64)

(* wireType := int(wire & 0x7) *)
WireTypeOf(d) == Digit(d, 1) % 8

(* The field number the tag carries, wire >> 3 in full (61 bits), is the    *)
(* int32 the code keeps exactly when bits 34..63 of the tag are clear.      *)
TagFitsInt32(d) == Digit(d, 5) < 64 /\ \A k \in 6..10 : Digit(d, k) = 0

\* ---------------------------------------------------------------- skipCommon

(* An operator that uses a computed value more than once takes it as a      *)
(* parameter, so each step of the code below is one operator applied to the *)
(* result of the step before it.                                            *)
SkipFail(e) == [n |-> SmallInt(0), err |-> e]
SkipSwitch(e, nx, depth) == [err |-> e, nx |-> nx, depth |-> depth]

(* case 0: the varint v read after the tag. *)
skipVarint(v, depth) == SkipSwitch(v.err, SmallInt(v.iNdEx), depth)

(* case 2: the length varint v read after the tag, then iNdEx += length. *)
skipLength(v, length, depth) ==
  IF v.err # ErrNil THEN SkipSwitch(v.err, SmallInt(v.iNdEx), depth)
  ELSE IF length.neg THEN SkipSwitch(ErrInvalidLengthCommon, SmallInt(v.iNdEx), depth)
  ELSE SkipSwitch(ErrNil, AddIndex(v.iNdEx, length), depth)

(* switch wireType, with iNdEx just past the tag: the index and the depth   *)
(* after it, or an error.                                                   *)
(* skipSwitch that does not count nested groups: a group-start sets the    *)
(* depth to 1.                                                              *)
skipSwitchOneLevel(dAtA, iNdEx, wireType, depth) ==
  CASE wireType = 0 -> skipVarint(ReadVarint(dAtA, iNdEx), depth)
    [] wireType = 1 -> SkipSwitch(ErrNil, SmallInt(iNdEx + 8), depth)
    [] wireType = 2 ->
         skipLength(ReadVarint(dAtA, iNdEx), IntOf(ReadVarint(dAtA, iNdEx).digits), depth)
    [] wireType = 3 -> SkipSwitch(ErrNil, SmallInt(iNdEx), 1)
    [] wireType = 4 ->
         IF depth = 0 THEN SkipSwitch(ErrUnexpectedEndOfGroupCommon, SmallInt(iNdEx), depth)
         ELSE SkipSwitch(ErrNil, SmallInt(iNdEx), depth - 1)
    [] wireType = 5 -> SkipSwitch(ErrNil, SmallInt(iNdEx + 4), depth)
    [] OTHER -> SkipSwitch(ErrIllegalWireType, SmallInt(iNdEx), depth)

skipSwitch(dAtA, iNdEx, wireType, depth) ==
  CASE wireType = 0 -> skipVarint(ReadVarint(dAtA, iNdEx), depth)
    [] wireType = 1 -> SkipSwitch(ErrNil, SmallInt(iNdEx + 8), depth)
    [] wireType = 2 ->
         skipLength(ReadVarint(dAtA, iNdEx), IntOf(ReadVarint(dAtA, iNdEx).digits), depth)
    [] wireType = 3 -> SkipSwitch(ErrNil, SmallInt(iNdEx), depth + 1)
    [] wireType = 4 ->
         IF depth = 0 THEN SkipSwitch(ErrUnexpectedEndOfGroupCommon, SmallInt(iNdEx), depth)
         ELSE SkipSwitch(ErrNil, SmallInt(iNdEx), depth - 1)
    [] wireType = 5 -> SkipSwitch(ErrNil, SmallInt(iNdEx + 4), depth)
    [] OTHER -> SkipSwitch(ErrIllegalWireType, SmallInt(iNdEx), depth)

RECURSIVE skipLoop(_, _, _)

(* After the switch: iNdEx < 0, depth == 0, and the loop condition. *)
skipAfterSwitch(dAtA, sw) ==
  IF sw.err # ErrNil THEN SkipFail(sw.err)
  ELSE IF sw.nx.neg THEN SkipFail(ErrInvalidLengthCommon)
  ELSE IF sw.depth = 0 THEN [n |-> sw.nx, err |-> ErrNil]
  ELSE IF sw.nx.big THEN SkipFail(ErrUnexpectedEOF)
  ELSE skipLoop(dAtA, sw.nx.v, sw.depth)

(* After the tag varint t. *)
skipAfterTag(dAtA, t, depth) ==
  IF t.err # ErrNil THEN SkipFail(t.err)
  ELSE skipAfterSwitch(dAtA, skipSwitch(dAtA, t.iNdEx, WireTypeOf(t.digits), depth))

(* The loop `for iNdEx < l` of skipCommon. *)
skipLoop(dAtA, iNdEx, depth) ==
  IF iNdEx >= Len(dAtA) THEN SkipFail(ErrUnexpectedEOF)
  ELSE skipAfterTag(dAtA, ReadVarint(dAtA, iNdEx), depth)

skipCommon(dAtA) == skipLoop(dAtA, 0, 0)

\* ------------------------------------------------------------------ messages

Nil == <<>>
Ptr(x) == <<x>>

(* &AdminConfig{} *)
NewAdminConfig == [ConfigId |-> <<>>, XXX_unrecognized |-> <<>>]

(* v3.TapConfig and v4alpha.ConfigSource live in other packages.  Each is   *)
(* taken as a message none of whose fields this codec knows, so all it      *)
(* holds is kept as raw field bytes.                                        *)
NewExternal == [XXX_unrecognized |-> <<>>]

(* &CommonExtensionConfig_TapDSConfig{} *)
NewTapDSConfig == [ConfigSource |-> Nil, Name |-> <<>>, XXX_unrecognized |-> <<>>]

(* The oneof: no wrapper (kind "nil"), or a wrapper of one of the three     *)
(* kinds holding a pointer to its message.                                  *)
NoConfigType == [kind |-> "nil", ptr |-> Nil]
Wrapper(kind, ptr) == [kind |-> kind, ptr |-> ptr]

(* &CommonExtensionConfig{} *)
NewCommonExtensionConfig == [ConfigType |-> NoConfigType, XXX_unrecognized |-> <<>>]

\* ------------------------------------------------------ Unmarshal, per field

(* dAtA[from:to] *)
Slice(dAtA, from, to) == SubSeq(dAtA, from + 1, to)

(* What one iteration of an Unmarshal loop leaves: the message, the read    *)
(* index, and the error it returned with ("nil" when it goes on).           *)
Step(m, iNdEx, err) == [m |-> m, iNdEx |-> iNdEx, err |-> err]

Tag(e, iNdEx, fieldNum, wireType) ==
  [err |-> e, iNdEx |-> iNdEx, fieldNum |-> fieldNum, wireType |-> wireType]

(* TagChecks without the end-group check. *)
TagChecksNoEndGroup(t, fieldNum, wireType) ==
  IF t.err # ErrNil THEN Tag(t.err, t.iNdEx, 0, 0)
  ELSE IF fieldNum <= 0 THEN Tag(ErrIllegalTag, t.iNdEx, fieldNum, wireType)
  ELSE Tag(ErrNil, t.iNdEx, fieldNum, wireType)

(* fieldNum and wireType of the tag varint t, the end-group check and the   *)
(* illegal-tag check.                                                       *)
TagChecks(t, fieldNum, wireType) ==
  IF t.err # ErrNil THEN Tag(t.err, t.iNdEx, 0, 0)
  ELSE IF wireType = 4 THEN Tag(ErrEndGroupNonGroup, t.iNdEx, fieldNum, wireType)
  ELSE IF fieldNum <= 0 THEN Tag(ErrIllegalTag, t.iNdEx, fieldNum, wireType)
  ELSE Tag(ErrNil, t.iNdEx, fieldNum, wireType)

TagOf(t) == TagChecks(t, FieldNumOf(t.digits), WireTypeOf(t.digits))

(* The head of each Unmarshal loop iteration. *)
ReadTag(dAtA, iNdEx) == TagOf(ReadVarint(dAtA, iNdEx))

Length(e, iNdEx, postIndex) == [err |-> e, iNdEx |-> iNdEx, postIndex |-> postIndex]

(* LengthChecks reporting a length that runs past the end as an invalid     *)
(* length.                                                                  *)
LengthChecksPastEndInvalid(l, v, length, postIndex) ==
  IF v.err # ErrNil THEN Length(v.err, v.iNdEx, v.iNdEx)
  ELSE IF length.neg THEN Length(ErrInvalidLengthCommon, v.iNdEx, v.iNdEx)
  ELSE IF postIndex.neg THEN Length(ErrInvalidLengthCommon, v.iNdEx, v.iNdEx)
  ELSE IF Exceeds(postIndex, l) THEN Length(ErrInvalidLengthCommon, v.iNdEx, v.iNdEx)
  ELSE Length(ErrNil, v.iNdEx, postIndex.v)

(* The checks on a length prefix: length < 0, postIndex := iNdEx + length,  *)
(* postIndex < 0, postIndex > l.                                            *)
LengthChecks(l, v, length, postIndex) ==
  IF v.err # ErrNil THEN Length(v.err, v.iNdEx, v.iNdEx)
  ELSE IF length.neg THEN Length(ErrInvalidLengthCommon, v.iNdEx, v.iNdEx)
  ELSE IF postIndex.neg THEN Length(ErrInvalidLengthCommon, v.iNdEx, v.iNdEx)
  ELSE IF Exceeds(postIndex, l) THEN Length(ErrUnexpectedEOF, v.iNdEx, v.iNdEx)
  ELSE Length(ErrNil, v.iNdEx, postIndex.v)

LengthOf(l, v) ==
  LengthChecks(l, v, IntOf(v.digits), AddIndex(v.iNdEx, IntOf(v.digits)))

(* The length prefix (msglen, stringLen) of a known length-delimited field. *)
ReadLength(dAtA, iNdEx) == LengthOf(Len(dAtA), ReadVarint(dAtA, iNdEx))

Skipped(e, iNdEx, unrecognized) ==
  [err |-> e, iNdEx |-> iNdEx, unrecognized |-> unrecognized]

(* SkipChecks assigning the skipped bytes instead of appending them. *)
SkipChecksOverwrite(unrecognized, dAtA, preIndex, s, end) ==
  IF s.err # ErrNil THEN Skipped(s.err, preIndex, unrecognized)
  ELSE IF s.n.neg THEN Skipped(ErrInvalidLengthCommon, preIndex, unrecognized)
  ELSE IF end.neg THEN Skipped(ErrInvalidLengthCommon, preIndex, unrecognized)
  ELSE IF Exceeds(end, Len(dAtA)) THEN Skipped(ErrUnexpectedEOF, preIndex, unrecognized)
  ELSE Skipped(ErrNil, end.v, Slice(dAtA, preIndex, end.v))

(* SkipChecks without the test (iNdEx + skippy) > l: the index moves past   *)
(* the end of the buffer.                                                   *)
SkipChecksNoEndTest(unrecognized, dAtA, preIndex, s, end) ==
  IF s.err # ErrNil THEN Skipped(s.err, preIndex, unrecognized)
  ELSE IF s.n.neg THEN Skipped(ErrInvalidLengthCommon, preIndex, unrecognized)
  ELSE IF end.neg THEN Skipped(ErrInvalidLengthCommon, preIndex, unrecognized)
  ELSE IF Exceeds(end, Len(dAtA)) THEN Skipped(ErrNil, Len(dAtA) + 1, unrecognized)
  ELSE Skipped(ErrNil, end.v, unrecognized \o Slice(dAtA, preIndex, end.v))

(* The checks on what skipCommon returned, then the append. *)
SkipChecks(unrecognized, dAtA, preIndex, s, end) ==
  IF s.err # ErrNil THEN Skipped(s.err, preIndex, unrecognized)
  ELSE IF s.n.neg THEN Skipped(ErrInvalidLengthCommon, preIndex, unrecognized)
  ELSE IF end.neg THEN Skipped(ErrInvalidLengthCommon, preIndex, unrecognized)
  ELSE IF Exceeds(end, Len(dAtA)) THEN Skipped(ErrUnexpectedEOF, preIndex, unrecognized)
  ELSE Skipped(ErrNil, end.v, unrecognized \o Slice(dAtA, preIndex, end.v))

SkippedOf(unrecognized, dAtA, preIndex, s) ==
  SkipChecks(unrecognized, dAtA, preIndex, s, AddIndex(preIndex, s.n))

(* The default case of each Unmarshal: skip the field that starts at        *)
(* preIndex and append its bytes to the unrecognized store.                 *)
SkipField(unrecognized, dAtA, preIndex) ==
  SkippedOf(unrecognized, dAtA, preIndex, skipCommon(Slice(dAtA, preIndex, Len(dAtA))))

(* Unrecognized skipping the field without keeping its bytes. *)
UnrecognizedDropped(m, s) == Step(m, s.iNdEx, s.err)

(* m after the default case. *)
Unrecognized(m, s) == Step([m EXCEPT !.XXX_unrecognized = s.unrecognized], s.iNdEx, s.err)

(* The end of each Unmarshal: `if iNdEx > l`. *)
Return(m, dAtA, iNdEx) ==
  [m |-> m, err |-> IF iNdEx > Len(dAtA) THEN ErrUnexpectedEOF ELSE ErrNil]

(* One iteration of the loop of an external message's Unmarshal. *)
ExternalSwitch(m, dAtA, preIndex, t) ==
  IF t.err # ErrNil THEN Step(m, t.iNdEx, t.err)
  ELSE Unrecognized(m, SkipField(m.XXX_unrecognized, dAtA, preIndex))

ExternalField(m, dAtA, iNdEx) == ExternalSwitch(m, dAtA, iNdEx, ReadTag(dAtA, iNdEx))

RECURSIVE ExternalUnmarshalFrom(_, _, _)
ExternalContinue(dAtA, s) ==
  IF s.err # ErrNil THEN [m |-> s.m, err |-> s.err]
  ELSE ExternalUnmarshalFrom(s.m, dAtA, s.iNdEx)

ExternalUnmarshalFrom(m, dAtA, iNdEx) ==
  IF iNdEx < Len(dAtA) THEN ExternalContinue(dAtA, ExternalField(m, dAtA, iNdEx))
  ELSE Return(m, dAtA, iNdEx)

ExternalUnmarshal(m, dAtA) == ExternalUnmarshalFrom(m, dAtA, 0)

(* case 1 of AdminConfig.Unmarshal after the length prefix n. *)
SetConfigId(m, dAtA, n) ==
  IF n.err # ErrNil THEN Step(m, n.iNdEx, n.err)
  ELSE Step([m EXCEPT !.ConfigId = Slice(dAtA, n.iNdEx, n.postIndex)], n.postIndex, ErrNil)

(* AdminConfigSwitch without the wire-type check of field 1. *)
AdminConfigSwitchAnyWireType(m, dAtA, preIndex, t) ==
  IF t.err # ErrNil THEN Step(m, t.iNdEx, t.err)
  ELSE IF t.fieldNum = 1 THEN SetConfigId(m, dAtA, ReadLength(dAtA, t.iNdEx))
  ELSE Unrecognized(m, SkipField(m.XXX_unrecognized, dAtA, preIndex))

(* switch fieldNum of AdminConfig.Unmarshal, after the tag t. *)
AdminConfigSwitch(m, dAtA, preIndex, t) ==
  IF t.err # ErrNil THEN Step(m, t.iNdEx, t.err)
  ELSE IF t.fieldNum = 1
    THEN IF t.wireType # 2 THEN Step(m, t.iNdEx, ErrWrongWireType)
         ELSE SetConfigId(m, dAtA, ReadLength(dAtA, t.iNdEx))
  ELSE Unrecognized(m, SkipField(m.XXX_unrecognized, dAtA, preIndex))

(* One iteration of the loop of AdminConfig.Unmarshal. *)
AdminConfigField(m, dAtA, iNdEx) == AdminConfigSwitch(m, dAtA, iNdEx, ReadTag(dAtA, iNdEx))

RECURSIVE AdminConfigUnmarshalFrom(_, _, _)
AdminConfigContinue(dAtA, s) ==
  IF s.err # ErrNil THEN [m |-> s.m, err |-> s.err]
  ELSE AdminConfigUnmarshalFrom(s.m, dAtA, s.iNdEx)

AdminConfigUnmarshalFrom(m, dAtA, iNdEx) ==
  IF iNdEx < Len(dAtA) THEN AdminConfigContinue(dAtA, AdminConfigField(m, dAtA, iNdEx))
  ELSE Return(m, dAtA, iNdEx)

AdminConfigUnmarshal(m, dAtA) == AdminConfigUnmarshalFrom(m, dAtA, 0)

(* m.ConfigSource after `if m.ConfigSource == nil { m.ConfigSource = &v4alpha.ConfigSource{} }` *)
ConfigSourceOf(m) == IF m.ConfigSource = Nil THEN NewExternal ELSE m.ConfigSource[1]

(* m.ConfigSource.Unmarshal returned u: the allocation and what the decode  *)
(* wrote stay in m when it failed.                                          *)
ConfigSourceDecoded(m, n, u) ==
  Step([m EXCEPT !.ConfigSource = Ptr(u.m)],
       IF u.err # ErrNil THEN n.iNdEx ELSE n.postIndex, u.err)

(* case 1 of TapDSConfig.Unmarshal after the length prefix n. *)
SetConfigSource(m, dAtA, n) ==
  IF n.err # ErrNil THEN Step(m, n.iNdEx, n.err)
  ELSE ConfigSourceDecoded(m, n,
         ExternalUnmarshal(ConfigSourceOf(m), Slice(dAtA, n.iNdEx, n.postIndex)))

(* case 2 of TapDSConfig.Unmarshal after the length prefix n. *)
SetName(m, dAtA, n) ==
  IF n.err # ErrNil THEN Step(m, n.iNdEx, n.err)
  ELSE Step([m EXCEPT !.Name = Slice(dAtA, n.iNdEx, n.postIndex)], n.postIndex, ErrNil)

(* switch fieldNum of TapDSConfig.Unmarshal, after the tag t. *)
TapDSConfigSwitch(m, dAtA, preIndex, t) ==
  IF t.err # ErrNil THEN Step(m, t.iNdEx, t.err)
  ELSE IF t.fieldNum = 1
    THEN IF t.wireType # 2 THEN Step(m, t.iNdEx, ErrWrongWireType)
         ELSE SetConfigSource(m, dAtA, ReadLength(dAtA, t.iNdEx))
  ELSE IF t.fieldNum = 2
    THEN IF t.wireType # 2 THEN Step(m, t.iNdEx, ErrWrongWireType)
         ELSE SetName(m, dAtA, ReadLength(dAtA, t.iNdEx))
  ELSE Unrecognized(m, SkipField(m.XXX_unrecognized, dAtA, preIndex))

(* One iteration of the loop of CommonExtensionConfig_TapDSConfig.Unmarshal.*)
TapDSConfigField(m, dAtA, iNdEx) == TapDSConfigSwitch(m, dAtA, iNdEx, ReadTag(dAtA, iNdEx))

RECURSIVE TapDSConfigUnmarshalFrom(_, _, _)
TapDSConfigContinue(dAtA, s) ==
  IF s.err # ErrNil THEN [m |-> s.m, err |-> s.err]
  ELSE TapDSConfigUnmarshalFrom(s.m, dAtA, s.iNdEx)

TapDSConfigUnmarshalFrom(m, dAtA, iNdEx) ==
  IF iNdEx < Len(dAtA) THEN TapDSConfigContinue(dAtA, TapDSConfigField(m, dAtA, iNdEx))
  ELSE Return(m, dAtA, iNdEx)

TapDSConfigUnmarshal(m, dAtA) == TapDSConfigUnmarshalFrom(m, dAtA, 0)

(* The wrapper kind of each oneof field number. *)
OneofKind(fieldNum) ==
  CASE fieldNum = 1 -> "AdminConfig"
    [] fieldNum = 2 -> "StaticConfig"
    [] fieldNum = 3 -> "TapdsConfig"

(* v := &T{}; v.Unmarshal(payload) for the T of a oneof field number. *)
DecodeVariant(fieldNum, payload) ==
  CASE fieldNum = 1 -> AdminConfigUnmarshal(NewAdminConfig, payload)
    [] fieldNum = 2 -> ExternalUnmarshal(NewExternal, payload)
    [] fieldNum = 3 -> TapDSConfigUnmarshal(NewTapDSConfig, payload)

(* InstallVariant keeping a variant that is already set. *)
InstallVariantKeepFirst(m, fieldNum, v) ==
  IF m.ConfigType.kind # "nil" THEN m
  ELSE [m EXCEPT !.ConfigType = Wrapper(OneofKind(fieldNum), Ptr(v))]

(* m.ConfigType = &CommonExtensionConfig_X{v} *)
InstallVariant(m, fieldNum, v) ==
  [m EXCEPT !.ConfigType = Wrapper(OneofKind(fieldNum), Ptr(v))]

(* v.Unmarshal returned u: on an error m is left as it was. *)
VariantDecoded(m, fieldNum, n, u) ==
  IF u.err # ErrNil THEN Step(m, n.iNdEx, u.err)
  ELSE Step(InstallVariant(m, fieldNum, u.m), n.postIndex, ErrNil)

(* cases 1, 2, 3 of CommonExtensionConfig.Unmarshal after the length prefix.*)
SetConfigType(m, dAtA, fieldNum, n) ==
  IF n.err # ErrNil THEN Step(m, n.iNdEx, n.err)
  ELSE VariantDecoded(m, fieldNum, n,
         DecodeVariant(fieldNum, Slice(dAtA, n.iNdEx, n.postIndex)))

(* switch fieldNum of CommonExtensionConfig.Unmarshal, after the tag t. *)
CommonExtensionConfigSwitch(m, dAtA, preIndex, t) ==
  IF t.err # ErrNil THEN Step(m, t.iNdEx, t.err)
  ELSE IF t.fieldNum \in {1, 2, 3}
    THEN IF t.wireType # 2 THEN Step(m, t.iNdEx, ErrWrongWireType)
         ELSE SetConfigType(m, dAtA, t.fieldNum, ReadLength(dAtA, t.iNdEx))
  ELSE Unrecognized(m, SkipField(m.XXX_unrecognized, dAtA, preIndex))

(* One iteration of the loop of CommonExtensionConfig.Unmarshal. *)
CommonExtensionConfigField(m, dAtA, iNdEx) ==
  CommonExtensionConfigSwitch(m, dAtA, iNdEx, ReadTag(dAtA, iNdEx))

RECURSIVE CommonExtensionConfigUnmarshalFrom(_, _, _)
CommonExtensionConfigContinue(dAtA, s) ==
  IF s.err # ErrNil THEN [m |-> s.m, err |-> s.err]
  ELSE CommonExtensionConfigUnmarshalFrom(s.m, dAtA, s.iNdEx)

CommonExtensionConfigUnmarshalFrom(m, dAtA, iNdEx) ==
  IF iNdEx < Len(dAtA)
    THEN CommonExtensionConfigContinue(dAtA, CommonExtensionConfigField(m, dAtA, iNdEx))
  ELSE Return(m, dAtA, iNdEx)

CommonExtensionConfigUnmarshal(m, dAtA) == CommonExtensionConfigUnmarshalFrom(m, dAtA, 0)

\* ------------------------------------------------------------------- Size

(* math_bits.Len64: the number of bits needed to write x. *)
RECURSIVE Len64(_)
Len64(x) == IF x = 0 THEN 0 ELSE 1 + Len64(x \div 2)

sovCommon(x) == (Len64(IF x % 2 = 0 THEN x + 1 ELSE x) + 6) \div 7

(* FieldSize without the tag byte. *)
FieldSizeNoTag(l) == l + sovCommon(l)

(* n += 1 + l + sovCommon(uint64(l)) *)
FieldSize(l) == 1 + l + sovCommon(l)

(* `l = len(s); if l > 0 { n += 1 + l + sovCommon(uint64(l)) }` *)
StringFieldSize(l) == IF l > 0 THEN FieldSize(l) ELSE 0

ExternalSize(m) == Len(m.XXX_unrecognized)

AdminConfigSize(m) == StringFieldSize(Len(m.ConfigId)) + Len(m.XXX_unrecognized)

TapDSConfigSize(m) ==
  (IF m.ConfigSource # Nil THEN FieldSize(ExternalSize(m.ConfigSource[1])) ELSE 0)
    + StringFieldSize(Len(m.Name)) + Len(m.XXX_unrecognized)

(* Size of the message a oneof wrapper of this kind points to. *)
VariantSize(kind, v) ==
  CASE kind = "AdminConfig" -> AdminConfigSize(v)
    [] kind = "StaticConfig" -> ExternalSize(v)
    [] kind = "TapdsConfig" -> TapDSConfigSize(v)

(* Size of a oneof wrapper: CommonExtensionConfig_AdminConfig.Size and its  *)
(* two siblings.                                                            *)
WrapperSize(w) == IF w.ptr # Nil THEN FieldSize(VariantSize(w.kind, w.ptr[1])) ELSE 0

CommonExtensionConfigSize(m) ==
  (IF m.ConfigType.kind # "nil" THEN WrapperSize(m.ConfigType) ELSE 0)
    + Len(m.XXX_unrecognized)

\* ---------------------------------------------------------------- Marshal

(* The buffer being filled: its bytes d, the set w of Go indices written so *)
(* far, and whether an index or slice expression went out of range (a Go    *)
(* run-time panic).  A callee gets the slice dAtA[lo:hi] of it; st is the   *)
(* buffer with the write index i of the function filling it.                *)
NewBuffer(size) == [d |-> [j \in 1..size |-> 0], w |-> {}, panic |-> FALSE]
Panic(ms) == [ms EXCEPT !.panic = TRUE]
At(ms, i) == [ms |-> ms, i |-> i]

(* copy(dAtA[i:], x) on the slice [lo, hi), n bytes of x fitting. *)
Copy(ms, i, x, n) ==
  [d |-> [j \in 1..Len(ms.d) |-> IF j - 1 >= i /\ j - 1 < i + n THEN x[j - i] ELSE ms.d[j]],
   w |-> ms.w \cup (i..(i + n - 1)),
   panic |-> FALSE]

CopyAt(ms, lo, hi, i, x) ==
  IF ms.panic \/ i < lo \/ i > hi THEN Panic(ms)
  ELSE Copy(ms, i, x, IF Len(x) < hi - i THEN Len(x) ELSE hi - i)

(* dAtA[i] = b on the slice [lo, hi) *)
SetByte(ms, lo, hi, i, b) ==
  IF ms.panic \/ i < lo \/ i >= hi THEN Panic(ms)
  ELSE [d |-> [ms.d EXCEPT ![i + 1] = b], w |-> ms.w \cup {i}, panic |-> FALSE]

(* The loop of encodeVarintCommon. *)
RECURSIVE encodeVarintLoop(_, _, _, _, _)
encodeVarintLoop(ms, lo, hi, offset, v) ==
  IF v >= 128
    THEN encodeVarintLoop(SetByte(ms, lo, hi, offset, (v % 128) + 128), lo, hi,
                          offset + 1, v \div 128)
  ELSE SetByte(ms, lo, hi, offset, v)

(* i = encodeVarintCommon(dAtA, i, v) *)
encodeVarintCommon(st, lo, hi, v) ==
  At(encodeVarintLoop(st.ms, lo, hi, st.i - sovCommon(v), v), st.i - sovCommon(v))

(* i -= len(x); copy(dAtA[i:], x) *)
PutBytes(st, lo, hi, x) == At(CopyAt(st.ms, lo, hi, st.i - Len(x), x), st.i - Len(x))

(* i--; dAtA[i] = tag *)
PutTag(st, lo, hi, tag) == At(SetByte(st.ms, lo, hi, st.i - 1, tag), st.i - 1)

(* A string field written back to front: payload, length, tag. *)
PutStringField(st, lo, hi, x, tag) ==
  IF Len(x) > 0
    THEN PutTag(encodeVarintCommon(PutBytes(st, lo, hi, x), lo, hi, Len(x)), lo, hi, tag)
  ELSE st

(* size, err := nested.MarshalToSizedBuffer(dAtA[:i]) returned r; i -= size *)
Nested(st, r) == At(r.ms, st.i - r.n)

(* ... then the length and the tag of the nested message. *)
PutMessageField(st, lo, hi, r, tag) ==
  PutTag(encodeVarintCommon(Nested(st, r), lo, hi, r.n), lo, hi, tag)

(* return len(dAtA) - i, nil *)
Written(st, hi) == [ms |-> st.ms, n |-> hi - st.i]

(* MarshalToSizedBuffer of an external message on dAtA[lo:hi]. *)
ExternalMarshalToSizedBuffer(m, ms, lo, hi) ==
  Written(PutBytes(At(ms, hi), lo, hi, m.XXX_unrecognized), hi)

(* AdminConfigMarshalToSizedBuffer writing ConfigId under the tag of field  *)
(* 2.                                                                       *)
AdminConfigMarshalToSizedBufferTag2(m, ms, lo, hi) ==
  Written(PutStringField(PutBytes(At(ms, hi), lo, hi, m.XXX_unrecognized),
                         lo, hi, m.ConfigId, 18), hi)

AdminConfigMarshalToSizedBuffer(m, ms, lo, hi) ==
  Written(PutStringField(PutBytes(At(ms, hi), lo, hi, m.XXX_unrecognized),
                         lo, hi, m.ConfigId, 10), hi)

(* `if m.ConfigSource != nil { ... }` of TapDSConfig.MarshalToSizedBuffer *)
PutConfigSource(m, st, lo, hi) ==
  IF m.ConfigSource # Nil
    THEN PutMessageField(st, lo, hi,
           ExternalMarshalToSizedBuffer(m.ConfigSource[1], st.ms, lo, st.i), 10)
  ELSE st

TapDSConfigMarshalToSizedBuffer(m, ms, lo, hi) ==
  Written(PutConfigSource(m,
            PutStringField(PutBytes(At(ms, hi), lo, hi, m.XXX_unrecognized),
                           lo, hi, m.Name, 18),
            lo, hi), hi)

VariantMarshalToSizedBuffer(kind, v, ms, lo, hi) ==
  CASE kind = "AdminConfig" -> AdminConfigMarshalToSizedBuffer(v, ms, lo, hi)
    [] kind = "StaticConfig" -> ExternalMarshalToSizedBuffer(v, ms, lo, hi)
    [] kind = "TapdsConfig" -> TapDSConfigMarshalToSizedBuffer(v, ms, lo, hi)

(* OneofTag with the tags of StaticConfig and TapdsConfig exchanged. *)
OneofTagExchanged(kind) ==
  CASE kind = "AdminConfig" -> 10
    [] kind = "StaticConfig" -> 26
    [] kind = "TapdsConfig" -> 18

(* The tag byte each oneof wrapper writes: 0xa, 0x12, 0x1a. *)
OneofTag(kind) ==
  CASE kind = "AdminConfig" -> 10
    [] kind = "StaticConfig" -> 18
    [] kind = "TapdsConfig" -> 26

(* MarshalToSizedBuffer of a oneof wrapper on dAtA[lo:hi]. *)
WrapperMarshalToSizedBuffer(w, ms, lo, hi) ==
  IF w.ptr # Nil
    THEN Written(PutMessageField(At(ms, hi), lo, hi,
                   VariantMarshalToSizedBuffer(w.kind, w.ptr[1], ms, lo, hi),
                   OneofTag(w.kind)), hi)
  ELSE Written(At(ms, hi), hi)

(* MarshalTo of a oneof wrapper on dAtA[lo:hi]: size := m.Size(), then      *)
(* MarshalToSizedBuffer(dAtA[:size]).  The slice expression dAtA[:size] is  *)
(* bounded by cap(dAtA), the end of the buffer, not by len(dAtA): it may    *)
(* reach past hi.                                                           *)
WrapperMarshalTo(w, ms, lo, hi, size) ==
  IF lo + size > Len(ms.d) THEN [ms |-> Panic(ms), n |-> 0]
  ELSE WrapperMarshalToSizedBuffer(w, ms, lo, lo + size)

(* `size := m.ConfigType.Size(); i -= size; m.ConfigType.MarshalTo(dAtA[i:])` *)
PutConfigType(w, st, lo, hi, size) ==
  IF st.ms.panic \/ st.i - size < lo THEN At(Panic(st.ms), st.i - size)
  ELSE At(WrapperMarshalTo(w, st.ms, st.i - size, hi, size).ms, st.i - size)

CommonExtensionConfigPutConfigType(m, st, lo, hi) ==
  IF m.ConfigType.kind # "nil"
    THEN PutConfigType(m.ConfigType, st, lo, hi, WrapperSize(m.ConfigType))
  ELSE st

CommonExtensionConfigMarshalToSizedBuffer(m, ms, lo, hi) ==
  Written(CommonExtensionConfigPutConfigType(m,
            PutBytes(At(ms, hi), lo, hi, m.XXX_unrecognized), lo, hi), hi)

\* -------------------------------------------------- the three message types

Types == {"AdminConfig", "TapDSConfig", "CommonExtensionConfig"}

New(typ) ==
  CASE typ = "AdminConfig" -> NewAdminConfig
    [] typ = "TapDSConfig" -> NewTapDSConfig
    [] typ = "CommonExtensionConfig" -> NewCommonExtensionConfig

Size(typ, m) ==
  CASE typ = "AdminConfig" -> AdminConfigSize(m)
    [] typ = "TapDSConfig" -> TapDSConfigSize(m)
    [] typ = "CommonExtensionConfig" -> CommonExtensionConfigSize(m)

MarshalToSizedBuffer(typ, m, ms, lo, hi) ==
  CASE typ = "AdminConfig" -> AdminConfigMarshalToSizedBuffer(m, ms, lo, hi)
    [] typ = "TapDSConfig" -> TapDSConfigMarshalToSizedBuffer(m, ms, lo, hi)
    [] typ = "CommonExtensionConfig" ->
         CommonExtensionConfigMarshalToSizedBuffer(m, ms, lo, hi)

(* What Marshal returns, dAtA[:n], kept with the size, n, the write index   *)
(* the fill ended at (size - n), the indices written and whether it         *)
(* panicked.                                                                *)
Marshalled(size, r) ==
  [bytes |-> IF r.ms.panic \/ r.n > size \/ r.n < 0 THEN <<>> ELSE SubSeq(r.ms.d, 1, r.n),
   size |-> size, n |-> r.n, i |-> size - r.n, w |-> r.ms.w,
   panic |-> r.ms.panic \/ r.n > size \/ r.n < 0]

MarshalSized(typ, m, size) ==
  Marshalled(size, MarshalToSizedBuffer(typ, m, NewBuffer(size), 0, size))

(* Marshal: size := m.Size(); dAtA = make([]byte, size);                    *)
(* n := m.MarshalToSizedBuffer(dAtA[:size]); return dAtA[:n].               *)
Marshal(typ, m) == MarshalSized(typ, m, Size(typ, m))

FieldStep(typ, m, dAtA, iNdEx) ==
  CASE typ = "AdminConfig" -> AdminConfigField(m, dAtA, iNdEx)
    [] typ = "TapDSConfig" -> TapDSConfigField(m, dAtA, iNdEx)
    [] typ = "CommonExtensionConfig" -> CommonExtensionConfigField(m, dAtA, iNdEx)

Unmarshal(typ, m, dAtA) ==
  CASE typ = "AdminConfig" -> AdminConfigUnmarshal(m, dAtA)
    [] typ = "TapDSConfig" -> TapDSConfigUnmarshal(m, dAtA)
    [] typ = "CommonExtensionConfig" -> CommonExtensionConfigUnmarshal(m, dAtA)

\* ------------------------------------------- XXX_Merge, XXX_DiscardUnknown

(* XXX_Merge and XXX_DiscardUnknown hand the message to Merge and           *)
(* DiscardUnknown of proto.InternalMessageInfo (github.com/gogo/protobuf),  *)
(* which walk the fields of the struct: a string of src that is not empty   *)
(* overwrites, a message pointer of src that is not nil is merged into the  *)
(* one of dst (allocated when nil), a oneof of src that is set is merged    *)
(* into a member of the same type and replaces a member of another type,    *)
(* and an unrecognized store of src that is not empty replaces the one of   *)
(* dst.  DiscardUnknown empties the store of the message and of every       *)
(* message it holds.  The external messages take part as messages none of   *)
(* whose fields are known.                                                  *)
MergeBytes(dst, src) == IF Len(src) > 0 THEN src ELSE dst

ExternalMerge(dst, src) ==
  [XXX_unrecognized |-> MergeBytes(dst.XXX_unrecognized, src.XXX_unrecognized)]

AdminConfigMerge(dst, src) ==
  [ConfigId |-> MergeBytes(dst.ConfigId, src.ConfigId),
   XXX_unrecognized |-> MergeBytes(dst.XXX_unrecognized, src.XXX_unrecognized)]

TapDSConfigMerge(dst, src) ==
  [ConfigSource |-> IF src.ConfigSource = Nil THEN dst.ConfigSource
                    ELSE Ptr(ExternalMerge(ConfigSourceOf(dst), src.ConfigSource[1])),
   Name |-> MergeBytes(dst.Name, src.Name),
   XXX_unrecognized |-> MergeBytes(dst.XXX_unrecognized, src.XXX_unrecognized)]

(* The message a oneof wrapper of the kind points to when newly allocated. *)
NewVariant(kind) ==
  CASE kind = "AdminConfig" -> NewAdminConfig
    [] kind = "StaticConfig" -> NewExternal
    [] kind = "TapdsConfig" -> NewTapDSConfig

VariantMerge(kind, dst, src) ==
  CASE kind = "AdminConfig" -> AdminConfigMerge(dst, src)
    [] kind = "StaticConfig" -> ExternalMerge(dst, src)
    [] kind = "TapdsConfig" -> TapDSConfigMerge(dst, src)

(* The wrapper of dst the oneof of src is merged into: a new one when dst   *)
(* has none or one of another type.                                         *)
OneofMergeTarget(dst, src) ==
  IF dst.kind = "nil" \/ dst.kind # src.kind THEN Wrapper(src.kind, Nil) ELSE dst

OneofMergeInto(du, src) ==
  IF src.ptr = Nil THEN du
  ELSE Wrapper(du.kind,
               Ptr(VariantMerge(du.kind,
                                IF du.ptr = Nil THEN NewVariant(du.kind) ELSE du.ptr[1],
                                src.ptr[1])))

OneofMerge(dst, src) ==
  IF src.kind = "nil" THEN dst ELSE OneofMergeInto(OneofMergeTarget(dst, src), src)

CommonExtensionConfigMerge(dst, src) ==
  [ConfigType |-> OneofMerge(dst.ConfigType, src.ConfigType),
   XXX_unrecognized |-> MergeBytes(dst.XXX_unrecognized, src.XXX_unrecognized)]

Merge(typ, dst, src) ==
  CASE typ = "AdminConfig" -> AdminConfigMerge(dst, src)
    [] typ = "TapDSConfig" -> TapDSConfigMerge(dst, src)
    [] typ = "CommonExtensionConfig" -> CommonExtensionConfigMerge(dst, src)

ExternalDiscardUnknown(m) == [XXX_unrecognized |-> <<>>]

AdminConfigDiscardUnknown(m) == [m EXCEPT !.XXX_unrecognized = <<>>]

TapDSConfigDiscardUnknown(m) ==
  [ConfigSource |-> IF m.ConfigSource = Nil THEN Nil
                    ELSE Ptr(ExternalDiscardUnknown(m.ConfigSource[1])),
   Name |-> m.Name,
   XXX_unrecognized |-> <<>>]

VariantDiscardUnknown(kind, v) ==
  CASE kind = "AdminConfig" -> AdminConfigDiscardUnknown(v)
    [] kind = "StaticConfig" -> ExternalDiscardUnknown(v)
    [] kind = "TapdsConfig" -> TapDSConfigDiscardUnknown(v)

OneofDiscardUnknown(w) ==
  IF w.kind = "nil" \/ w.ptr = Nil THEN w
  ELSE Wrapper(w.kind, Ptr(VariantDiscardUnknown(w.kind, w.ptr[1])))

CommonExtensionConfigDiscardUnknown(m) ==
  [ConfigType |-> OneofDiscardUnknown(m.ConfigType), XXX_unrecognized |-> <<>>]

DiscardUnknown(typ, m) ==
  CASE typ = "AdminConfig" -> AdminConfigDiscardUnknown(m)
    [] typ = "TapDSConfig" -> TapDSConfigDiscardUnknown(m)
    [] typ = "CommonExtensionConfig" -> CommonExtensionConfigDiscardUnknown(m)

\* ------------------------------------------------------------------- inputs

MaxUnknown == 2
MaxFields == 2
MaxRawLen == 2
LongLen == 128
MaxMerge == 1

RECURSIVE Concats(_, _)
Concats(pool, n) ==
  IF n = 0 THEN {<<>>}
  ELSE LET S == Concats(pool, n - 1) IN S \cup {x \o f : x \in S, f \in pool}

RECURSIVE SeqsUpTo(_, _)
SeqsUpTo(S, n) ==
  IF n = 0 THEN {<<>>}
  ELSE LET T == SeqsUpTo(S, n - 1) IN T \cup {Append(x, b) : x \in T, b \in S}

(* The field numbers each message's schema knows. *)
Known(typ) ==
  CASE typ = "AdminConfig" -> {1}
    [] typ = "TapDSConfig" -> {1, 2}
    [] typ = "CommonExtensionConfig" -> {1, 2, 3}

(* Complete, well-formed fields whose number (4, 5 or 21) no schema here    *)
(* knows: a varint, a fixed 64-bit, a length-delimited, a fixed 32-bit, a   *)
(* group, a group in a group, a field with a two-byte tag.                  *)
UnknownFields ==
  { <<40, 1>>, <<41, 1, 2, 3, 4, 5, 6, 7, 8>>, <<42, 1, 97>>, <<45, 1, 2, 3, 4>>,
    <<43, 40, 1, 44>>, <<35, 43, 44, 36>>, <<168, 1, 0>> }

(* Complete varint fields whose field number is no legal one: number 0,     *)
(* and number 2^31 (tag 2^34), which int32 reads as negative.               *)
IllegalNumberFields == { <<0, 0>>, <<128, 128, 128, 128, 64, 0>> }

(* Complete fields whose tag is 2^35 or more, so the field number does not  *)
(* fit 32 bits: number 2^32 + 1 (length-delimited, payload "a" and empty    *)
(* payload) and number 2^32 + 5 (varint 0).                                 *)
WideNumberFields ==
  { <<138, 128, 128, 128, 128, 1, 1, 97>>, <<138, 128, 128, 128, 128, 1, 0>>,
    <<168, 128, 128, 128, 128, 1, 0>> }

(* Complete length-delimited fields numbered 1, 2, 3 with payloads each of  *)
(* the schemas accepts.                                                     *)
KnownFields ==
  { <<10, 0>>, <<10, 1, 97>>, <<10, 3, 10, 1, 97>>, <<10, 2, 40, 1>>,
    <<18, 0>>, <<18, 1, 98>>, <<18, 2, 40, 1>>,
    <<26, 0>>, <<26, 3, 18, 1, 98>> }

WellFormedFields == UnknownFields \cup IllegalNumberFields \cup WideNumberFields \cup KnownFields

(* Pieces that are not complete fields: known numbers with other wire       *)
(* types, a lone end-group, wire types 6 and 7, lengths that run past the   *)
(* end, are negative (bit 63 set), wrap the index (2^63 - 1) or are merely  *)
(* huge, an 11-byte varint as a length, a value and a tag, a cut varint,    *)
(* groups left open.                                                        *)
MalformedPieces ==
  { <<8, 1>>, <<9, 1, 2, 3, 4, 5, 6, 7, 8>>, <<11>>, <<12>>, <<13, 1, 2, 3, 4>>,
    <<14>>, <<15, 0>>, <<16, 1>>, <<20>>, <<24, 1>>, <<28>>, <<44>>, <<47, 0>>,
    <<10, 5, 97>>, <<18, 3, 98>>, <<26, 4, 18, 1>>, <<42, 3, 97>>,
    <<10, 128, 128, 128, 128, 128, 128, 128, 128, 128, 1>>,
    <<10, 255, 255, 255, 255, 255, 255, 255, 255, 127>>,
    <<18, 255, 255, 255, 255, 255, 255, 255, 255, 1>>,
    <<42, 255, 255, 255, 255, 255, 255, 255, 255, 127>>,
    <<10, 128, 128, 128, 128, 128, 128, 128, 128, 128, 128, 1>>,
    <<40, 128>>, <<10, 3, 8, 1, 97>>, <<43>>, <<35, 43, 44>>,
    <<40, 128, 128, 128, 128, 128, 128, 128, 128, 128, 128, 1>>,
    <<168, 128, 128, 128, 128, 128, 128, 128, 128, 128, 128, 1, 0>> }

(* Fields with a ten-byte varint whose last byte has bits above bit 63 (the *)
(* byte 2, bit 64 of the value): as the length of field 1, as the value of  *)
(* a varint field numbered 5, as the tag of a varint field.                 *)
TenByteVarintFields ==
  { <<10, 128, 128, 128, 128, 128, 128, 128, 128, 128, 2>>,
    <<40, 129, 128, 128, 128, 128, 128, 128, 128, 128, 2>>,
    <<168, 128, 128, 128, 128, 128, 128, 128, 128, 2, 1>> }

RawBytes == {0, 10, 12, 40, 43, 44, 128, 255}

(* The buffers handed to Unmarshal. *)
Buffers ==
  Concats(WellFormedFields \cup MalformedPieces \cup TenByteVarintFields, MaxFields)
    \cup SeqsUpTo(RawBytes, MaxRawLen)

(* The buffers of two Unmarshal calls in a row on one message. *)
MergeBuffers == Concats(WellFormedFields, MaxMerge)

FilterId == <<102, 105, 108, 116, 101, 114, 45, 49>>
LongString == [j \in 1..LongLen |-> 97]

(* Unrecognized stores as decode builds them: complete unknown fields. *)
Stores == Concats(UnknownFields, MaxUnknown)
SmallStores == {<<>>, <<40, 1>>, <<43, 40, 1, 44>>}

(* Stores a caller can assign but decode never builds: a known field's      *)
(* bytes, a cut varint, a lone end-group.                                   *)
ForeignStores == {<<10, 1, 97>>, <<18, 0>>, <<255>>, <<12>>}

Externals == {[XXX_unrecognized |-> u] : u \in SmallStores}

AdminConfigs ==
  {[ConfigId |-> c, XXX_unrecognized |-> u] : c \in {<<>>, <<97>>, FilterId}, u \in Stores}
    \cup {[ConfigId |-> LongString, XXX_unrecognized |-> u] : u \in SmallStores}

SmallAdminConfigs ==
  {[ConfigId |-> c, XXX_unrecognized |-> u] : c \in {<<>>, <<97>>}, u \in SmallStores}

TapDSConfigs ==
  {[ConfigSource |-> cs, Name |-> n, XXX_unrecognized |-> u] :
     cs \in {Nil} \cup {Ptr(e) : e \in Externals}, n \in {<<>>, <<98>>}, u \in Stores}
    \cup {[ConfigSource |-> Nil, Name |-> LongString, XXX_unrecognized |-> <<>>]}

SmallTapDSConfigs ==
  {[ConfigSource |-> cs, Name |-> n, XXX_unrecognized |-> u] :
     cs \in {Nil, Ptr(NewExternal), Ptr([XXX_unrecognized |-> <<40, 1>>])},
     n \in {<<>>, <<98>>}, u \in {<<>>, <<40, 1>>}}

ConfigTypes ==
  {NoConfigType}
    \cup {Wrapper(k, Nil) : k \in {"AdminConfig", "StaticConfig", "TapdsConfig"}}
    \cup {Wrapper("AdminConfig", Ptr(a)) : a \in SmallAdminConfigs}
    \cup {Wrapper("AdminConfig", Ptr([ConfigId |-> LongString, XXX_unrecognized |-> <<>>]))}
    \cup {Wrapper("StaticConfig", Ptr(e)) : e \in Externals}
    \cup {Wrapper("TapdsConfig", Ptr(t)) : t \in SmallTapDSConfigs}

CommonExtensionConfigs ==
  {[ConfigType |-> c, XXX_unrecognized |-> u] : c \in ConfigTypes, u \in SmallStores}
    \cup {[ConfigType |-> NoConfigType, XXX_unrecognized |-> u] : u \in Stores}

(* The messages handed to XXX_Merge as src. *)
MergeAdminConfigs ==
  {[ConfigId |-> c, XXX_unrecognized |-> u] : c \in {<<>>, <<98>>}, u \in {<<>>, <<40, 1>>}}

MergeConfigTypes ==
  {NoConfigType}
    \cup {Wrapper(k, Nil) : k \in {"AdminConfig", "StaticConfig", "TapdsConfig"}}
    \cup {Wrapper("AdminConfig", Ptr(a)) : a \in MergeAdminConfigs}
    \cup {Wrapper("StaticConfig", Ptr(e)) : e \in Externals}
    \cup {Wrapper("TapdsConfig", Ptr(t)) : t \in SmallTapDSConfigs}

MergeSources(typ) ==
  CASE typ = "AdminConfig" -> MergeAdminConfigs
    [] typ = "TapDSConfig" -> SmallTapDSConfigs
    [] typ = "CommonExtensionConfig" ->
         {[ConfigType |-> c, XXX_unrecognized |-> u] :
            c \in MergeConfigTypes, u \in {<<>>, <<40, 1>>}}

(* The same messages with a store decode never builds. *)
ForeignMessages(typ) ==
  CASE typ = "AdminConfig" ->
         {[ConfigId |-> c, XXX_unrecognized |-> u] : c \in {<<>>, <<97>>}, u \in ForeignStores}
    [] typ = "TapDSConfig" ->
         {[ConfigSource |-> Nil, Name |-> n, XXX_unrecognized |-> u] :
            n \in {<<>>, <<98>>}, u \in ForeignStores}
    [] typ = "CommonExtensionConfig" ->
         {[ConfigType |-> c, XXX_unrecognized |-> u] :
            c \in {NoConfigType, Wrapper("AdminConfig", Ptr(NewAdminConfig))},
            u \in ForeignStores}

Messages(typ) ==
  ForeignMessages(typ) \cup
  CASE typ = "AdminConfig" -> AdminConfigs
    [] typ = "TapDSConfig" -> TapDSConfigs
    [] typ = "CommonExtensionConfig" -> CommonExtensionConfigs

\* ------------------------------------------------------------ state machine

VARIABLES
  typ,    \* which of the three message types the calls are made on
  pc,     \* "encode", "encoded", "decode", "returned", "reencoded", "reset",
          \* "merged", "discarded", "skip", "skipped"
  m,      \* the message: Marshal's receiver, then Unmarshal's target
  orig,   \* the message Marshal was called on, as Ptr(m); Nil when none was
  out,    \* what Marshal returned
  dAtA,   \* Unmarshal's argument
  iNdEx,  \* Unmarshal's read index; at an error, the index of the field it failed in
  err,    \* what Unmarshal, or skipCommon, returned
  first,  \* in a later Unmarshal on the same m: the bytes decoded into m before
          \* it, as Ptr(b) (empty after Reset); else Nil
  skippy  \* the n skipCommon returned

vars == <<typ, pc, m, orig, out, dAtA, iNdEx, err, first, skippy>>

NoOut == [bytes |-> <<>>, size |-> 0, n |-> 0, i |-> 0, w |-> {}, panic |-> FALSE]

Init ==
  /\ typ \in Types
  /\ \/ pc = "encode" /\ m \in Messages(typ) /\ dAtA = <<>>
     \/ pc = "decode" /\ m = New(typ) /\ dAtA \in Buffers
     \/ pc = "skip" /\ m = New(typ) /\ dAtA \in Buffers
  /\ orig = Nil
  /\ out = NoOut
  /\ iNdEx = 0
  /\ err = ErrNil
  /\ first = Nil
  /\ skippy = SmallInt(0)

(* m.Marshal() *)
DoMarshal ==
  /\ pc = "encode"
  /\ out' = Marshal(typ, m)
  /\ pc' = "encoded"
  /\ UNCHANGED <<typ, m, orig, dAtA, iNdEx, err, first, skippy>>

(* The caller hands the first n bytes of the encoding to Unmarshal on an    *)
(* empty message of the same type.                                          *)
CallUnmarshal ==
  /\ pc = "encoded"
  /\ ~out.panic
  /\ \E n \in 0..Len(out.bytes) : dAtA' = SubSeq(out.bytes, 1, n)
  /\ orig' = Ptr(m)
  /\ m' = New(typ)
  /\ iNdEx' = 0
  /\ pc' = "decode"
  /\ UNCHANGED <<typ, out, err, first, skippy>>

(* The state after a loop iteration that left s: on an error Unmarshal    *)
(* returns it.                                                              *)
Stepped(s) ==
  /\ m' = s.m
  /\ err' = s.err
  /\ IF s.err = ErrNil THEN iNdEx' = s.iNdEx /\ pc' = "decode"
     ELSE iNdEx' = iNdEx /\ pc' = "returned"

(* One iteration of Unmarshal's loop `for iNdEx < l`. *)
UnmarshalField ==
  /\ pc = "decode"
  /\ iNdEx < Len(dAtA)
  /\ Stepped(FieldStep(typ, m, dAtA, iNdEx))
  /\ UNCHANGED <<typ, orig, out, dAtA, first, skippy>>

(* The end of Unmarshal's loop: the final check and return. *)
UnmarshalReturn ==
  /\ pc = "decode"
  /\ iNdEx >= Len(dAtA)
  /\ err' = Return(m, dAtA, iNdEx).err
  /\ pc' = "returned"
  /\ UNCHANGED <<typ, m, orig, out, dAtA, iNdEx, first, skippy>>

(* m.Marshal() on a message Unmarshal filled from a buffer. *)
Remarshal ==
  /\ pc = "returned"
  /\ err = ErrNil
  /\ orig = Nil
  /\ out' = Marshal(typ, m)
  /\ pc' = "reencoded"
  /\ UNCHANGED <<typ, m, orig, dAtA, iNdEx, err, first, skippy>>

(* m.Reset(), `*m = T{}`, on a message an Unmarshal of one of the buffers   *)
(* of MergeBuffers has filled.                                              *)
Reset ==
  /\ pc = "returned"
  /\ err = ErrNil
  /\ orig = Nil
  /\ dAtA \in MergeBuffers
  /\ m' = New(typ)
  /\ first' = Nil
  /\ pc' = "reset"
  /\ UNCHANGED <<typ, orig, out, dAtA, iNdEx, err, skippy>>

(* m.XXX_Merge(src) on a message an Unmarshal of one of the buffers of      *)
(* MergeBuffers has filled.                                                 *)
XXX_Merge ==
  /\ pc = "returned"
  /\ err = ErrNil
  /\ orig = Nil
  /\ first = Nil
  /\ dAtA \in MergeBuffers
  /\ \E src \in MergeSources(typ) : m' = Merge(typ, m, src)
  /\ pc' = "merged"
  /\ UNCHANGED <<typ, orig, out, dAtA, iNdEx, err, first, skippy>>

(* m.XXX_DiscardUnknown() on a message one or two Unmarshal calls on the    *)
(* buffers of MergeBuffers have filled.                                     *)
XXX_DiscardUnknown ==
  /\ pc = "returned"
  /\ err = ErrNil
  /\ orig = Nil
  /\ dAtA \in MergeBuffers
  /\ m' = DiscardUnknown(typ, m)
  /\ pc' = "discarded"
  /\ UNCHANGED <<typ, orig, out, dAtA, iNdEx, err, first, skippy>>

(* CallUnmarshalAgain on a target that Unmarshal resets first. *)
CallUnmarshalAgainReset ==
  /\ \/ /\ pc = "returned"
        /\ err = ErrNil
        /\ orig = Nil
        /\ first = Nil
        /\ dAtA \in MergeBuffers
        /\ first' = Ptr(dAtA)
     \/ /\ pc = "reset"
        /\ first' = Ptr(<<>>)
  /\ dAtA' \in MergeBuffers
  /\ iNdEx' = 0
  /\ err' = ErrNil
  /\ pc' = "decode"
  /\ m' = New(typ)
  /\ UNCHANGED <<typ, orig, out, skippy>>

(* A second m.Unmarshal(b2) on the message an Unmarshal(b1) has just        *)
(* filled, or that Reset has emptied since: Unmarshal does not reset the    *)
(* target.  first keeps the bytes decoded into the message before this      *)
(* call: b1, or none after Reset.                                           *)
CallUnmarshalAgain ==
  /\ \/ /\ pc = "returned"
        /\ err = ErrNil
        /\ orig = Nil
        /\ first = Nil
        /\ dAtA \in MergeBuffers
        /\ first' = Ptr(dAtA)
     \/ /\ pc = "reset"
        /\ first' = Ptr(<<>>)
  /\ dAtA' \in MergeBuffers
  /\ iNdEx' = 0
  /\ err' = ErrNil
  /\ pc' = "decode"
  /\ UNCHANGED <<typ, m, orig, out, skippy>>

(* skipCommon(dAtA), called on the buffer directly. *)
CallSkipCommon ==
  /\ pc = "skip"
  /\ skippy' = skipCommon(dAtA).n
  /\ err' = skipCommon(dAtA).err
  /\ pc' = "skipped"
  /\ UNCHANGED <<typ, m, orig, out, dAtA, iNdEx, first>>

Next ==
  \/ DoMarshal \/ CallUnmarshal \/ UnmarshalField \/ UnmarshalReturn \/ Remarshal
  \/ CallUnmarshalAgain \/ CallSkipCommon \/ Reset \/ XXX_Merge \/ XXX_DiscardUnknown

Spec == Init /\ [][Next]_vars

\* ------------------------------------------------------------------- claims

(* A valid message: every unrecognized store in it is a run of complete     *)
(* fields with legal field numbers (1 .. 2^29 - 1) that no schema here      *)
(* knows, which is what decode builds from a legal encoding, and a oneof    *)
(* wrapper that is set points to a message.                                 *)
ValidExternal(e) == e.XXX_unrecognized \in Stores
ValidAdminConfig(a) == a.XXX_unrecognized \in Stores
ValidTapDSConfig(t) ==
  /\ t.XXX_unrecognized \in Stores
  /\ t.ConfigSource # Nil => ValidExternal(t.ConfigSource[1])
ValidVariant(w) ==
  /\ w.ptr # Nil
  /\ CASE w.kind = "AdminConfig" -> ValidAdminConfig(w.ptr[1])
       [] w.kind = "StaticConfig" -> ValidExternal(w.ptr[1])
       [] w.kind = "TapdsConfig" -> ValidTapDSConfig(w.ptr[1])
ValidCommonExtensionConfig(c) ==
  /\ c.XXX_unrecognized \in Stores
  /\ c.ConfigType.kind # "nil" => ValidVariant(c.ConfigType)
Valid(t, x) ==
  CASE t = "AdminConfig" -> ValidAdminConfig(x)
    [] t = "TapDSConfig" -> ValidTapDSConfig(x)
    [] t = "CommonExtensionConfig" -> ValidCommonExtensionConfig(x)

(* Marshal has returned, on a message of the input set or on a decoded one. *)
Encoded == pc \in {"encoded", "reencoded"}

(* Unmarshal has returned from decoding a prefix of the encoding of orig.   *)
DecodedFromMessage == pc = "returned" /\ orig # Nil

\* C1: for every message of the three types (any oneof variant or none, any
\* strings, any unrecognized bytes) the bytes Marshal returns are exactly
\* Size(m) long, and the back-to-front fill ends with the write index at 0,
\* every index of the buffer written and none outside it.
C1_MarshalFillsSize ==
  Encoded =>
    /\ ~out.panic
    /\ Len(out.bytes) = Size(typ, m)
    /\ out.i = 0
    /\ out.w = 0..(Size(typ, m) - 1)

\* C1 witness: a CommonExtensionConfig whose AdminConfig branch holds a
\* string long enough for a two-byte length prefix has been marshalled.
C1_Witness ==
  /\ pc = "encoded"
  /\ typ = "CommonExtensionConfig"
  /\ m.ConfigType.kind = "AdminConfig"
  /\ m.ConfigType.ptr # Nil
  /\ Len(m.ConfigType.ptr[1].ConfigId) >= 128
  /\ m.XXX_unrecognized # <<>>
  /\ out.i = 0
  /\ Len(out.bytes) > 134

\* C2: for every valid message m, Unmarshal(Marshal(m)) into an empty message
\* succeeds and reproduces m: the same variant with an equal nested message,
\* equal strings, an equal unrecognized store.
C2_RoundTrip ==
  (DecodedFromMessage /\ Valid(typ, orig[1]) /\ dAtA = out.bytes) =>
    err = ErrNil /\ m = orig[1]

\* C2 witness: a CommonExtensionConfig with a TapdsConfig branch that has a
\* ConfigSource, a Name and unrecognized bytes at both levels came back equal.
C2_Witness ==
  /\ DecodedFromMessage
  /\ typ = "CommonExtensionConfig"
  /\ dAtA = out.bytes
  /\ orig[1].ConfigType.kind = "TapdsConfig"
  /\ orig[1].ConfigType.ptr # Nil
  /\ orig[1].ConfigType.ptr[1].ConfigSource # Nil
  /\ orig[1].ConfigType.ptr[1].Name # <<>>
  /\ orig[1].ConfigType.ptr[1].XXX_unrecognized # <<>>
  /\ orig[1].XXX_unrecognized # <<>>
  /\ m = orig[1]

(* The top-level fields of a buffer by the wire format alone, from Go index *)
(* i on: the extent [from, to) of each complete field, up to the first      *)
(* place where no complete field starts.  s is what skipCommon makes of     *)
(* b[i:].                                                                   *)
RECURSIVE Fields(_, _)
FieldsAfter(b, i, s) ==
  IF s.err # ErrNil \/ s.n.neg \/ s.n.big THEN <<>>
  ELSE IF s.n.v = 0 \/ i + s.n.v > Len(b) THEN <<>>
  ELSE <<[from |-> i, to |-> i + s.n.v]>> \o Fields(b, i + s.n.v)

Fields(b, i) ==
  IF i >= Len(b) THEN <<>> ELSE FieldsAfter(b, i, skipCommon(Slice(b, i, Len(b))))

(* The field number a field's tag carries, tag >> 3 in full, is one the     *)
(* schema of t knows.                                                       *)
CarriesKnownNumber(t, b, f) ==
  /\ TagFitsInt32(ReadVarint(b, f.from).digits)
  /\ FieldNumOf(ReadVarint(b, f.from).digits) \in Known(t)

(* The field number Unmarshal reads off a field's tag, int32(tag >> 3). *)
NumberRead(b, f) == FieldNumOf(ReadVarint(b, f.from).digits)

(* The raw bytes, in order, of the fields of fs whose number the schema of  *)
(* t does not know.                                                         *)
RECURSIVE UnknownBytes(_, _, _, _)
UnknownBytes(t, b, fs, k) ==
  IF k > Len(fs) THEN <<>>
  ELSE (IF CarriesKnownNumber(t, b, fs[k]) THEN <<>> ELSE Slice(b, fs[k].from, fs[k].to))
         \o UnknownBytes(t, b, fs, k + 1)

(* x ends with suffix. *)
EndsWith(x, suffix) ==
  /\ Len(suffix) <= Len(x)
  /\ SubSeq(x, Len(x) - Len(suffix) + 1, Len(x)) = suffix

(* Unmarshal accepted a buffer handed to it directly. *)
Accepted == pc \in {"returned", "reencoded"} /\ err = ErrNil /\ orig = Nil /\ first = Nil

\* C3: for every buffer Unmarshal accepts, the unrecognized store afterwards
\* is the concatenation, in encounter order, of the raw bytes of exactly the
\* top-level fields whose field number the schema does not know, and Marshal
\* of the decoded message ends with those bytes.
C3_UnknownFieldsLossless ==
  Accepted =>
    /\ m.XXX_unrecognized = UnknownBytes(typ, dAtA, Fields(dAtA, 0), 1)
    /\ pc = "reencoded" => EndsWith(out.bytes, UnknownBytes(typ, dAtA, Fields(dAtA, 0), 1))

(* The Go indices at which a top-level field of b ends, and 0. *)
Boundaries(b) == {0} \cup {Fields(b, 0)[k].to : k \in 1..Len(Fields(b, 0))}

(* Unmarshal has returned from a strict prefix of the encoding of a valid   *)
(* message.                                                                 *)
DecodedFromStrictPrefix ==
  DecodedFromMessage /\ Valid(typ, orig[1]) /\ Len(dAtA) < Len(out.bytes)

\* C4 as stated: for every valid message m and every strict prefix p of
\* Marshal(m), Unmarshal(p) returns io.ErrUnexpectedEOF.
C4_Original == DecodedFromStrictPrefix => err = ErrUnexpectedEOF

\* C4: for every valid message m and every strict prefix p of Marshal(m):
\* when p ends inside a top-level field, Unmarshal(p) returns
\* io.ErrUnexpectedEOF; when p ends where a top-level field ends (the empty
\* prefix included), Unmarshal(p) succeeds and the message holds exactly the
\* fields of p, so that it marshals back to p.
C4_TruncationInsideField ==
  DecodedFromStrictPrefix =>
    IF Len(dAtA) \in Boundaries(out.bytes)
      THEN err = ErrNil /\ Marshal(typ, m).bytes = dAtA
      ELSE err = ErrUnexpectedEOF

\* C4 witness: a prefix of the encoding of a TapDSConfig with both fields set,
\* cut inside a field after the first one, came back with io.ErrUnexpectedEOF.
C4_Witness ==
  /\ DecodedFromStrictPrefix
  /\ typ = "TapDSConfig"
  /\ orig[1].ConfigSource # Nil
  /\ orig[1].Name # <<>>
  /\ Len(dAtA) \notin Boundaries(out.bytes)
  /\ iNdEx > 0
  /\ err = ErrUnexpectedEOF

(* Unmarshal is at the head of a loop iteration and the tag there reads     *)
(* without error; the field number and the wire type it reads off it.       *)
AtTag == pc = "decode" /\ iNdEx < Len(dAtA) /\ ReadVarint(dAtA, iNdEx).err = ErrNil
TagNumber == FieldNumOf(ReadVarint(dAtA, iNdEx).digits)
TagWireType == WireTypeOf(ReadVarint(dAtA, iNdEx).digits)
AtKnownTag == AtTag /\ TagNumber \in Known(typ)

(* The step makes Unmarshal return e with the message as it was. *)
Fails(e) == pc' = "returned" /\ err' = e /\ m' = m

\* C5 as stated: whenever Unmarshal reads a tag whose field number the schema
\* knows and whose wire type is not 2, it fails with "wrong wireType" and
\* does not assign the field.
C5_Original ==
  [][(AtKnownTag /\ TagWireType # 2) => Fails(ErrWrongWireType)]_vars

\* C5: whenever Unmarshal reads a tag whose field number the schema knows and
\* whose wire type is not 2, it fails and does not assign the field: with
\* "wiretype end group for non-group" when the wire type is 4, with
\* "wrong wireType" when it is 0, 1, 3, 5, 6 or 7.
C5_WrongWireTypeRejected ==
  [][(AtKnownTag /\ TagWireType # 2) =>
       IF TagWireType = 4 THEN Fails(ErrEndGroupNonGroup)
       ELSE Fails(ErrWrongWireType)]_vars

\* C5 witness: TapDSConfig.Unmarshal, having decoded a ConfigSource, returned
\* "wrong wireType" at a tag of field 2 (Name).
C5_Witness ==
  /\ pc = "returned"
  /\ err = ErrWrongWireType
  /\ typ = "TapDSConfig"
  /\ iNdEx > 0
  /\ m.ConfigSource # Nil
  /\ TagNumber = 2
  /\ TagWireType # 2

(* dAtA[iNdEx:] starts with the complete field f. *)
FieldAt(f) ==
  /\ pc = "decode"
  /\ iNdEx + Len(f) <= Len(dAtA)
  /\ Slice(dAtA, iNdEx, iNdEx + Len(f)) = f

(* The step goes past the field f and appends its bytes to the store. *)
Appended(f) ==
  /\ pc' = "decode"
  /\ err' = ErrNil
  /\ iNdEx' = iNdEx + Len(f)
  /\ m' = [m EXCEPT !.XXX_unrecognized = @ \o f]

\* C6 as stated: for every well-formed, complete field whose field number is
\* not one the message knows, decoding continues and the field's raw bytes
\* are appended to the unrecognized store.
C6_Original ==
  [][\A f \in WellFormedFields :
       (FieldAt(f) /\ TagNumber \notin Known(typ)) => Appended(f)]_vars

\* C6: for every well-formed, complete field whose field number, as Unmarshal
\* reads it, is positive and not one the message knows, decoding continues
\* and the field's raw bytes are appended to the unrecognized store; a field
\* whose number reads as 0 or negative is rejected with "illegal tag" and the
\* message is left as it was.
C6_UnknownFieldsKept ==
  [][\A f \in WellFormedFields :
       (FieldAt(f) /\ TagNumber \notin Known(typ)) =>
         IF TagNumber > 0 THEN Appended(f) ELSE Fails(ErrIllegalTag)]_vars

\* C6 witness: AdminConfig.Unmarshal went through a length-delimited field
\* numbered 2 and a group in a group numbered 4 and holds both in the store.
C6_Witness ==
  /\ pc = "decode"
  /\ typ = "AdminConfig"
  /\ orig = Nil
  /\ iNdEx = Len(dAtA)
  /\ m.ConfigId = <<>>
  /\ m.XXX_unrecognized = <<18, 1, 98, 35, 43, 44, 36>>

(* The length prefix after the tag at iNdEx reads without error. *)
LengthAt == ReadVarint(dAtA, ReadVarint(dAtA, iNdEx).iNdEx)
AtKnownLength == AtKnownTag /\ TagWireType = 2 /\ LengthAt.err = ErrNil

(* The length as a 64-bit int is negative; is so large that adding the      *)
(* index of the payload wraps to a negative number; makes the field end     *)
(* past the end of the buffer.                                              *)
LengthNegative == IntOf(LengthAt.digits).neg
LengthWraps ==
  /\ ~LengthNegative
  /\ IntOf(LengthAt.digits).big
  /\ IntOf(LengthAt.digits).v < LengthAt.iNdEx
LengthPastEnd ==
  /\ ~LengthNegative
  /\ \/ IntOf(LengthAt.digits).big
     \/ LengthAt.iNdEx + IntOf(LengthAt.digits).v > Len(dAtA)

\* C10 as stated: for every known length-delimited field, if the length
\* prefix is negative or makes the field extend past the end of the buffer,
\* Unmarshal fails with ErrInvalidLengthCommon and does not assign the field.
C10_Original ==
  [][(AtKnownLength /\ (LengthNegative \/ LengthPastEnd)) =>
       Fails(ErrInvalidLengthCommon)]_vars

\* C10: for every known length-delimited field, if the length prefix is
\* negative, or so large that the end index wraps to a negative int,
\* Unmarshal fails with ErrInvalidLengthCommon; if the field otherwise extends
\* past the end of the buffer, Unmarshal fails with io.ErrUnexpectedEOF; in
\* both cases the field is not assigned.
C10_BadLengthRejected ==
  [][(AtKnownLength /\ (LengthNegative \/ LengthPastEnd)) =>
       IF LengthNegative \/ LengthWraps THEN Fails(ErrInvalidLengthCommon)
       ELSE Fails(ErrUnexpectedEOF)]_vars

\* C10 witness: AdminConfig.Unmarshal, holding a ConfigId from an earlier
\* field, returned ErrInvalidLengthCommon at a field 1 whose length wraps the
\* end index, and kept the ConfigId.
C10_Witness ==
  /\ pc = "returned"
  /\ err = ErrInvalidLengthCommon
  /\ typ = "AdminConfig"
  /\ m.ConfigId = <<97>>
  /\ TagNumber = 1
  /\ TagWireType = 2
  /\ LengthWraps

(* The indices in fs of the fields of b that Unmarshal reads as oneof       *)
(* fields (numbers 1, 2, 3).                                                *)
OneofFields(b, fs) == {k \in 1..Len(fs) : NumberRead(b, fs[k]) \in {1, 2, 3}}

(* The oneof a fresh CommonExtensionConfig holds after decoding the field f *)
(* of b alone.                                                              *)
VariantOfFieldAlone(b, f) ==
  CommonExtensionConfigUnmarshal(NewCommonExtensionConfig, Slice(b, f.from, f.to)).m.ConfigType

(* The oneof the last of the oneof fields ks of b makes, none when ks is    *)
(* empty.                                                                   *)
VariantOfLast(b, fs, ks) ==
  IF ks = {} THEN NoConfigType
  ELSE VariantOfFieldAlone(b, fs[CHOOSE k \in ks : \A j \in ks : j <= k])

VariantOfLastField(b, fs) == VariantOfLast(b, fs, OneofFields(b, fs))

\* C7: while CommonExtensionConfig.Unmarshal decodes a buffer into an empty
\* message, and when it has returned, the oneof holds exactly what the last
\* oneof field read so far (number 1, 2 or 3) makes when decoded alone: a
\* fresh variant of that field's kind with nothing of earlier oneof fields,
\* and no variant when no oneof field was read.
C7_LastOneofFieldWins ==
  (typ = "CommonExtensionConfig" /\ pc \in {"decode", "returned"} /\ first = Nil) =>
    /\ m.ConfigType = VariantOfLastField(dAtA, Fields(Slice(dAtA, 0, iNdEx), 0))
    /\ m.ConfigType.kind # "nil" => m.ConfigType.ptr # Nil

\* C7 witness: a buffer holding field 1 with ConfigId "a" and then field 1
\* with an empty payload was accepted and left an empty AdminConfig variant.
C7_Witness ==
  /\ typ = "CommonExtensionConfig"
  /\ pc = "returned"
  /\ err = ErrNil
  /\ dAtA = <<10, 3, 10, 1, 97, 10, 0>>
  /\ m.ConfigType = Wrapper("AdminConfig", Ptr(NewAdminConfig))

(* The output b, with top-level fields fs, of a message whose oneof is w:   *)
(* it starts with the tag byte of w's branch, that first field is the only  *)
(* top-level field numbered 1, 2 or 3, and the rest of b is the store.      *)
OnlyBranch(b, fs, w, store) ==
  /\ Len(fs) >= 1
  /\ b[1] = CASE w.kind = "AdminConfig" -> 10
              [] w.kind = "StaticConfig" -> 18
              [] w.kind = "TapdsConfig" -> 26
  /\ {k \in 1..Len(fs) : CarriesKnownNumber("CommonExtensionConfig", b, fs[k])} = {1}
  /\ fs[Len(fs)].to = Len(b)
  /\ Slice(b, fs[1].to, Len(b)) = store

(* The field numbers 1, 2, 3 found among the top-level fields fs of b. *)
OneofNumbersIn(b, fs) ==
  { NumberRead(b, fs[k]) :
      k \in {j \in 1..Len(fs) : CarriesKnownNumber("CommonExtensionConfig", b, fs[j])} }

\* C8 as stated: for a CommonExtensionConfig with one oneof branch set, the
\* top-level fields of Marshal's output that are numbered 1, 2 or 3 are
\* fields of that branch, and there is one: only that branch's tag appears.
C8_Original ==
  (Encoded /\ typ = "CommonExtensionConfig" /\ m.ConfigType.kind # "nil") =>
    OneofNumbersIn(out.bytes, Fields(out.bytes, 0))
      = {CASE m.ConfigType.kind = "AdminConfig" -> 1
           [] m.ConfigType.kind = "StaticConfig" -> 2
           [] m.ConfigType.kind = "TapdsConfig" -> 3}

(* The output b, with top-level fields fs, starts with the tag byte of the  *)
(* branch of w, and what follows that first field is the store.             *)
BranchThenStore(b, fs, w, store) ==
  /\ Len(fs) >= 1
  /\ b[1] = CASE w.kind = "AdminConfig" -> 10
              [] w.kind = "StaticConfig" -> 18
              [] w.kind = "TapdsConfig" -> 26
  /\ fs[1].from = 0
  /\ Slice(b, fs[1].to, Len(b)) = store

(* The store is made of complete fields, none of them numbered 1, 2 or 3. *)
NoOneofFieldIn(store, fs) ==
  /\ (store = <<>> \/ (Len(fs) >= 1 /\ fs[Len(fs)].to = Len(store)))
  /\ OneofNumbersIn(store, fs) = {}

\* C8: for a CommonExtensionConfig with one oneof branch set, the output of
\* Marshal is the field of that branch, when the wrapper points to a message
\* (first byte 0x0a for AdminConfig, 0x12 for StaticConfig, 0x1a for
\* TapdsConfig), followed by the bytes of the unrecognized store as they are;
\* a wrapper that points to no message adds nothing, and the output is the
\* store alone.  When the wrapper points to a message and the store is made
\* of complete fields numbered other than 1, 2, 3, the first field is the
\* only top-level field numbered 1, 2 or 3.
C8_OnlyActiveBranchEncoded ==
  (Encoded /\ typ = "CommonExtensionConfig" /\ m.ConfigType.kind # "nil") =>
    /\ m.ConfigType.ptr = Nil => out.bytes = m.XXX_unrecognized
    /\ m.ConfigType.ptr # Nil =>
         BranchThenStore(out.bytes, Fields(out.bytes, 0), m.ConfigType, m.XXX_unrecognized)
    /\ (m.ConfigType.ptr # Nil
          /\ NoOneofFieldIn(m.XXX_unrecognized, Fields(m.XXX_unrecognized, 0))) =>
         OnlyBranch(out.bytes, Fields(out.bytes, 0), m.ConfigType, m.XXX_unrecognized)

\* C8 witness: a CommonExtensionConfig with the TapdsConfig branch set, a
\* Name in it and unrecognized bytes was marshalled with 0x1a first.
C8_Witness ==
  /\ pc = "encoded"
  /\ typ = "CommonExtensionConfig"
  /\ Valid(typ, m)
  /\ m.ConfigType.kind = "TapdsConfig"
  /\ m.ConfigType.ptr[1].Name # <<>>
  /\ m.XXX_unrecognized # <<>>
  /\ out.bytes[1] = 26

(* AdminConfig{ConfigId: "filter-1"} and the ten bytes of its encoding. *)
Filter1 == [ConfigId |-> <<102, 105, 108, 116, 101, 114, 45, 49>>, XXX_unrecognized |-> <<>>]
Filter1Bytes == <<10, 8, 102, 105, 108, 116, 101, 114, 45, 49>>

\* C9: Marshal of AdminConfig{ConfigId: "filter-1"} yields exactly the ten
\* bytes 0x0a, 0x08, 'f','i','l','t','e','r','-','1', and Unmarshal of those
\* bytes into an empty AdminConfig succeeds and yields an equal struct.
C9_Filter1RoundTrip ==
  /\ (pc = "encoded" /\ typ = "AdminConfig" /\ m = Filter1) => out.bytes = Filter1Bytes
  /\ (pc = "returned" /\ typ = "AdminConfig" /\ dAtA = Filter1Bytes) =>
       err = ErrNil /\ m = Filter1

\* C9 witness: the ten bytes Marshal made of AdminConfig{ConfigId: "filter-1"}
\* were decoded back.
C9_Witness ==
  /\ pc = "returned"
  /\ typ = "AdminConfig"
  /\ orig = Ptr(Filter1)
  /\ out.bytes = Filter1Bytes
  /\ dAtA = Filter1Bytes
  /\ m = Filter1

(* The varint at Go index i of b encodes more than 64 bits: its first nine  *)
(* bytes all go on, and its tenth byte either goes on too or has a bit      *)
(* above its lowest one (bit 64 of the value and up).                       *)
WiderThan64(b, i) ==
  /\ i + 9 < Len(b)
  /\ \A j \in (i + 1)..(i + 9) : b[j] >= 128
  /\ b[i + 10] >= 2

(* The Go index just past the tag at j, when it reads without error and is  *)
(* followed by a varint of its own: a value (wire type 0) or a length       *)
(* (wire type 2).                                                           *)
VarintAfterTag(b, j) ==
  /\ ReadVarint(b, j).err = ErrNil
  /\ WireTypeOf(ReadVarint(b, j).digits) \in {0, 2}

(* Unmarshal is about to read a varint wider than 64 bits: the tag, the     *)
(* length of a known field, or the value or length of a field it skips.     *)
ReadsWideVarint ==
  /\ pc = "decode"
  /\ iNdEx < Len(dAtA)
  /\ \/ WiderThan64(dAtA, iNdEx)
     \/ /\ VarintAfterTag(dAtA, iNdEx)
        /\ TagNumber > 0
        /\ TagWireType = 2 \/ TagNumber \notin Known(typ)
        /\ WiderThan64(dAtA, ReadVarint(dAtA, iNdEx).iNdEx)

(* skipCommon was called on a buffer whose first tag, or the value or       *)
(* length after it, is a varint wider than 64 bits.                         *)
SkippedWideVarint ==
  /\ pc = "skipped"
  /\ \/ WiderThan64(dAtA, 0)
     \/ VarintAfterTag(dAtA, 0) /\ WiderThan64(dAtA, ReadVarint(dAtA, 0).iNdEx)

\* C11: whenever a tag varint or a length varint (or a skipped value varint)
\* in the input encodes a value wider than 64 bits, a ten-byte varint whose
\* last byte has bits above bit 63 included, Unmarshal and skipCommon fail
\* with ErrIntOverflowCommon.
C11_WideVarintOverflows ==
  /\ [](SkippedWideVarint => err = ErrIntOverflowCommon)
  /\ [][ReadsWideVarint => Fails(ErrIntOverflowCommon)]_vars

(* The tokens of a buffer by the wire format: a tag with the value, the     *)
(* fixed bytes or the payload its wire type gives it; a group-start and a   *)
(* group-end tag are tokens of their own.  The Go index just past the token *)
(* with tag t, wire type wt and following varint v; -1 when there is none.  *)
TokenEndOf(t, wt, v, length) ==
  IF t.err # ErrNil THEN -1
  ELSE CASE wt = 0 -> IF v.err = ErrNil THEN v.iNdEx ELSE -1
         [] wt = 1 -> t.iNdEx + 8
         [] wt = 2 -> IF v.err = ErrNil /\ ~length.neg /\ ~length.big
                        THEN v.iNdEx + length.v ELSE -1
         [] wt \in {3, 4} -> t.iNdEx
         [] wt = 5 -> t.iNdEx + 4
         [] OTHER -> -1

TokenEndAfter(b, t) ==
  TokenEndOf(t, WireTypeOf(t.digits), ReadVarint(b, t.iNdEx),
             IntOf(ReadVarint(b, t.iNdEx).digits))

TokenEnd(b, i) == TokenEndAfter(b, ReadVarint(b, i))

(* The tokens of b[i:end] tile it, and every group-end tag among them       *)
(* closes a group-start read before it: the depth never goes below 0.       *)
RECURSIVE EndGroupsClose(_, _, _, _)
EndGroupsCloseFrom(b, i, end, depth, wt, next) ==
  IF next < 0 \/ next > end THEN FALSE
  ELSE IF wt = 3 THEN EndGroupsClose(b, next, end, depth + 1)
  ELSE IF wt = 4 THEN depth > 0 /\ EndGroupsClose(b, next, end, depth - 1)
  ELSE EndGroupsClose(b, next, end, depth)

EndGroupsClose(b, i, end, depth) ==
  IF i >= end THEN TRUE
  ELSE EndGroupsCloseFrom(b, i, end, depth, WireTypeOf(ReadVarint(b, i).digits),
                          TokenEnd(b, i))

(* skipCommon was called on a buffer that starts with a group-end tag. *)
SkippedEndGroup ==
  /\ pc = "skipped"
  /\ ReadVarint(dAtA, 0).err = ErrNil
  /\ WireTypeOf(ReadVarint(dAtA, 0).digits) = 4

(* skipCommon returned the extent of a field that lies within the buffer. *)
SkippedWithin == pc = "skipped" /\ err = ErrNil /\ ~skippy.big /\ skippy.v <= Len(dAtA)

\* C12: a group-end tag (wire type 4) with no open group makes decode fail:
\* at the top level of each of the three messages Unmarshal fails with
\* "wiretype end group for non-group" for every field number and leaves the
\* message as it was, and skipCommon called on a buffer that starts with a
\* group-end tag returns ErrUnexpectedEndOfGroupCommon; in what Unmarshal has
\* consumed, and in the field skipCommon has measured, every group-end tag
\* closes a group-start read before it.
C12_EndGroupNeedsOpenGroup ==
  /\ [](SkippedEndGroup => err = ErrUnexpectedEndOfGroupCommon)
  /\ [](SkippedWithin => EndGroupsClose(dAtA, 0, skippy.v, 0))
  /\ [](pc \in {"decode", "returned"} => EndGroupsClose(dAtA, 0, iNdEx, 0))
  /\ [][(AtTag /\ TagWireType = 4) => Fails(ErrEndGroupNonGroup)]_vars

\* C12 witness: AdminConfig.Unmarshal skipped a group with its closing tag,
\* kept it in the store, and failed at a second group-end tag after it.
C12_Witness ==
  /\ pc = "returned"
  /\ typ = "AdminConfig"
  /\ err = ErrEndGroupNonGroup
  /\ dAtA = <<43, 40, 1, 44, 44>>
  /\ iNdEx = 4
  /\ m.XXX_unrecognized = <<43, 40, 1, 44>>

(* The token at i of b has a tag or a value varint wider than 64 bits. *)
WideToken(b, i) ==
  \/ WiderThan64(b, i)
  \/ VarintAfterTag(b, i) /\ WiderThan64(b, ReadVarint(b, i).iNdEx)

(* The Go index just past the one complete field of b that starts at i, by  *)
(* the wire format: a single token, or for a group everything up to and     *)
(* with the group-end tag that balances its group-start.  -1 when the bytes *)
(* are no complete field, -2 when they end inside a group left open.        *)
RECURSIVE FieldEnd(_, _, _)
FieldEndFrom(b, depth, wt, next) ==
  IF next < 0 \/ next > Len(b) THEN -1
  ELSE IF wt = 3 THEN FieldEnd(b, next, depth + 1)
  ELSE IF wt = 4 THEN (IF depth = 0 THEN -1
                       ELSE IF depth = 1 THEN next
                       ELSE FieldEnd(b, next, depth - 1))
  ELSE IF depth = 0 THEN next
  ELSE FieldEnd(b, next, depth)

FieldEnd(b, i, depth) ==
  IF i >= Len(b) THEN -2
  ELSE IF WideToken(b, i) THEN -1
  ELSE FieldEndFrom(b, depth, WireTypeOf(ReadVarint(b, i).digits), TokenEnd(b, i))

(* b starts with the bytes f. *)
StartsWith(b, f) == Len(b) >= Len(f) /\ SubSeq(b, 1, Len(f)) = f

(* The wire type of the first tag of the buffer skipCommon was called on. *)
SkippedTagRead == pc = "skipped" /\ ReadVarint(dAtA, 0).err = ErrNil /\ ~WiderThan64(dAtA, 0)

SkippedWireType == WireTypeOf(ReadVarint(dAtA, 0).digits)

\* C13: skipCommon on a buffer that starts with one complete field returns
\* the encoded length of that field and no error, for the wire types 0, 1,
\* 2, 5 and for a group (3/4), where the length reaches just past the
\* group-end tag that balances the group-start, nested groups counted by
\* depth; it returns io.ErrUnexpectedEOF when the buffer ends inside a group
\* that is never closed, and the illegal-wire-type error when the first tag
\* has wire type 6 or 7.
C13_SkipReturnsFieldLength ==
  pc = "skipped" =>
    /\ \A f \in WellFormedFields :
         StartsWith(dAtA, f) => err = ErrNil /\ skippy = SmallInt(Len(f))
    /\ FieldEnd(dAtA, 0, 0) > 0 =>
         err = ErrNil /\ skippy = SmallInt(FieldEnd(dAtA, 0, 0))
    /\ (SkippedTagRead /\ SkippedWireType = 3 /\ FieldEnd(dAtA, 0, 0) = -2) =>
         err = ErrUnexpectedEOF
    /\ (SkippedTagRead /\ SkippedWireType \in {6, 7}) => err = ErrIllegalWireType

\* C13 witness: skipCommon measured a group with a group nested in it,
\* followed by more bytes, and returned the four bytes of the outer group.
C13_Witness ==
  /\ pc = "skipped"
  /\ StartsWith(dAtA, <<35, 43, 44, 36>>)
  /\ Len(dAtA) > 4
  /\ err = ErrNil
  /\ skippy = SmallInt(4)

(* Every error value the decoders return. *)
Errors ==
  { ErrUnexpectedEOF, ErrInvalidLengthCommon, ErrIntOverflowCommon,
    ErrUnexpectedEndOfGroupCommon, ErrWrongWireType, ErrEndGroupNonGroup,
    ErrIllegalTag, ErrIllegalWireType }

(* Every iteration of skipCommon's loop on b from index i that goes on to   *)
(* another iteration, or returns an index, has moved the index forward.     *)
RECURSIVE SkipAdvances(_, _, _)
SkipAdvancesAfter(b, i, sw) ==
  \/ sw.err # ErrNil
  \/ sw.nx.neg
  \/ sw.nx.big
  \/ /\ sw.nx.v > i
     /\ sw.depth = 0 \/ SkipAdvances(b, sw.nx.v, sw.depth)

SkipAdvances(b, i, depth) ==
  \/ i >= Len(b)
  \/ ReadVarint(b, i).err # ErrNil
  \/ SkipAdvancesAfter(b, i, skipSwitch(b, ReadVarint(b, i).iNdEx,
                                       WireTypeOf(ReadVarint(b, i).digits), depth))

(* What skipCommon returned: an error with n = 0, or no error with n > 0. *)
SkipReturned ==
  \/ err \in Errors /\ skippy = SmallInt(0)
  \/ err = ErrNil /\ ~skippy.neg /\ (skippy.big \/ skippy.v >= 1)

\* C14: for every byte sequence Unmarshal of each message and skipCommon end
\* with nil or an error: the read index of Unmarshal stays within
\* 0..len(dAtA), at every loop head the next iteration ends with nil or an
\* error, every iteration of its loop that goes on to another one has moved
\* the index strictly forward, every iteration of skipCommon's loop moves
\* its index strictly forward, and what is returned is nil or one of the
\* errors (skipCommon: an error with n = 0, or nil with n > 0).
C14_DecodeAdvancesInBounds ==
  /\ [](0 <= iNdEx /\ iNdEx <= Len(dAtA))
  /\ []((pc = "decode" /\ iNdEx < Len(dAtA)) =>
          FieldStep(typ, m, dAtA, iNdEx).err \in Errors \cup {ErrNil})
  /\ [](pc = "returned" => err \in Errors \cup {ErrNil})
  /\ [](pc = "skipped" => SkipAdvances(dAtA, 0, 0) /\ SkipReturned)
  /\ [][(pc = "decode" /\ pc' = "decode") => iNdEx' > iNdEx]_vars

\* C14 witness: CommonExtensionConfig.Unmarshal reached the end of a buffer
\* whose last field is a fixed64 field cut short, which skipCommon measures
\* as running past the end, after consuming the field before it.
C14_Witness ==
  /\ pc = "returned"
  /\ typ = "CommonExtensionConfig"
  /\ dAtA = <<40, 1, 41, 1>>
  /\ iNdEx = 2
  /\ err = ErrUnexpectedEOF

(* The string field of AdminConfig (ConfigId, number 1) and of TapDSConfig  *)
(* (Name, number 2).                                                        *)
StringFieldNumber(t) == IF t = "AdminConfig" THEN 1 ELSE 2

StringOf(t, msg) == IF t = "AdminConfig" THEN msg.ConfigId ELSE msg.Name

(* The fields of fs whose number, as Unmarshal reads it, is the string      *)
(* field's.                                                                 *)
StringFields(t, b, fs) ==
  { k \in 1..Len(fs) : NumberRead(b, fs[k]) = StringFieldNumber(t) }

(* The string the field f of b holds when decoded alone. *)
StringOfFieldAlone(t, b, f) ==
  StringOf(t, Unmarshal(t, New(t), Slice(b, f.from, f.to)).m)

(* The value of the last occurrence of the string field among the fields fs *)
(* of b, the empty string when there is none.                               *)
StringOfLast(t, b, fs, ks) ==
  IF ks = {} THEN <<>>
  ELSE StringOfFieldAlone(t, b, fs[CHOOSE k \in ks : \A j \in ks : j <= k])

LastString(t, b) == StringOfLast(t, b, Fields(b, 0), StringFields(t, b, Fields(b, 0)))

(* The raw bytes, in order, of the fields of fs that Unmarshal skips: those *)
(* whose number, as it reads it, is none the schema of t knows.             *)
RECURSIVE SkippedBytes(_, _, _, _)
SkippedBytes(t, b, fs, k) ==
  IF k > Len(fs) THEN <<>>
  ELSE (IF NumberRead(b, fs[k]) \in Known(t) THEN <<>> ELSE Slice(b, fs[k].from, fs[k].to))
         \o SkippedBytes(t, b, fs, k + 1)

(* Unmarshal(b1) returned nil, then Unmarshal(b2) on the same message       *)
(* returned nil: first holds b1, dAtA is b2.  After Reset, b1 is empty.     *)
Merged == pc = "returned" /\ first # Nil /\ err = ErrNil

\* C15: Unmarshal does not reset its target: after Unmarshal(b1) and then
\* Unmarshal(b2) on the same message, both returning nil, the message is
\* what a single Unmarshal(b1 ++ b2) on an empty message gives, which
\* returns nil too; the string field (ConfigId, Name) holds the value of its
\* last occurrence in b1 ++ b2, and the unrecognized store holds what it
\* held after b1 followed by the bytes of the fields of b2 that were skipped.
\* After Reset the same holds with nothing for b1.
C15_UnmarshalMerges ==
  Merged =>
    /\ Unmarshal(typ, New(typ), first[1] \o dAtA) = [m |-> m, err |-> ErrNil]
    /\ typ \in {"AdminConfig", "TapDSConfig"} =>
         StringOf(typ, m) = LastString(typ, first[1] \o dAtA)
    /\ m.XXX_unrecognized =
         Unmarshal(typ, New(typ), first[1]).m.XXX_unrecognized
           \o SkippedBytes(typ, dAtA, Fields(dAtA, 0), 1)

\* C15 witness: TapDSConfig.Unmarshal set Name to "b" from a first buffer
\* and then to the empty string from a second one.
C15_Witness ==
  /\ Merged
  /\ typ = "TapDSConfig"
  /\ first = Ptr(<<18, 1, 98>>)
  /\ dAtA = <<18, 0>>
  /\ m.Name = <<>>

====
